---- MODULE Spec2Model ----
(***************************************************************************)
(* Model of src/src/cobs_crc32.rs: the trailer solver cobs_crc32 and the   *)
(* tests test0, test1 and test_lots/test_all that drive it.                *)
(*                                                                         *)
(* A u32 is held as its four byte lanes, most significant first:           *)
(* 0x8bd69e52 is <<139, 214, 158, 82>>.  TLC's integers are 32-bit signed, *)
(* so a u32 does not fit in one of them; every u32 operation of the source *)
(* (&, ^, !, >>, ==) is modelled lane by lane on this representation.      *)
(***************************************************************************)
EXTENDS Naturals, Sequences, FiniteSets

\* ------------------------------------------------------------------ bounds

\* test_lots runs n over 0..100_000_000 and test_all over all u32; the model
\* runs n over 0..MaxN.
MaxN == 1

\* The number of calls of cobs_crc32 in one run of the model.
MaxCalls == 3

\* ------------------------------------------------------------ u8 and u32

Byte == 0..255

RECURSIVE BitXor(_, _, _)
\* a ^ b on the low `bits` bits.
BitXor(a, b, bits) ==
    IF bits = 0 THEN 0
    ELSE ((a + b) % 2) + 2 * BitXor(a \div 2, b \div 2, bits - 1)

RECURSIVE BitAnd(_, _, _)
\* a & b on the low `bits` bits.
BitAnd(a, b, bits) ==
    IF bits = 0 THEN 0
    ELSE ((a % 2) * (b % 2)) + 2 * BitAnd(a \div 2, b \div 2, bits - 1)

Xor8(a, b) == BitXor(a, b, 8)

And8(a, b) == BitAnd(a, b, 8)

\* The u32 with the given lanes, most significant first.
U32(b3, b2, b1, b0) == <<b3, b2, b1, b0>>

\* a ^ b on u32.
WXor(a, b) ==
    U32(Xor8(a[1], b[1]), Xor8(a[2], b[2]), Xor8(a[3], b[3]), Xor8(a[4], b[4]))

\* a & b on u32.
WAnd(a, b) ==
    U32(And8(a[1], b[1]), And8(a[2], b[2]), And8(a[3], b[3]), And8(a[4], b[4]))

\* !a on u32.
WNot(a) == U32(255 - a[1], 255 - a[2], 255 - a[3], 255 - a[4])

\* a >> 1 on u32.
WShr1(a) ==
    U32(a[1] \div 2,
        (a[2] \div 2) + 128 * (a[1] % 2),
        (a[3] \div 2) + 128 * (a[2] % 2),
        (a[4] \div 2) + 128 * (a[3] % 2))

\* a >> 8 on u32.
WShr8(a) == U32(0, a[1], a[2], a[3])

\* a as u8: the low lane.
LowByte(a) == a[4]

\* --------------------------------------------- crc32fast (the CRC-32 used)

\* The reflected CRC-32 (IEEE 802.3) polynomial 0xEDB88320.
CRC32_POLY == U32(237, 184, 131, 32)

RECURSIVE TableRounds(_, _)
\* `rounds` rounds of: c = if c & 1 != 0 { (c >> 1) ^ POLY } else { c >> 1 }.
TableRounds(c, rounds) ==
    IF rounds = 0 THEN c
    ELSE TableRounds(IF LowByte(c) % 2 = 1 THEN WXor(WShr1(c), CRC32_POLY)
                                           ELSE WShr1(c),
                     rounds - 1)

RECURSIVE TableRange(_, _)
\* The table's entries for the indices lo..hi, in order.
TableRange(lo, hi) ==
    IF lo = hi THEN <<TableRounds(U32(0, 0, 0, lo), 8)>>
    ELSE TableRange(lo, (lo + hi) \div 2) \o TableRange(((lo + hi) \div 2) + 1, hi)

\* The byte-wise lookup table of CRC-32: the entry of index i is the
\* (i+1)-th element (a TLA+ sequence counts from 1).
CRC32_TABLE == TableRange(0, 255)

\* One byte into the raw CRC register:
\* crc = (crc >> 8) ^ CRC32_TABLE[(crc as u8) ^ byte].
CrcByte(crc, byte) ==
    WXor(WShr8(crc), CRC32_TABLE[Xor8(LowByte(crc), byte) + 1])

\* The u32 values.
Word == Byte \X Byte \X Byte \X Byte

\* for &byte in buf { crc = ... }: the raw register after the bytes of buf, in
\* order.
CrcLoop[crc \in Word, buf \in Seq(Byte)] ==
    IF buf = <<>> THEN crc
    ELSE CrcLoop[CrcByte(crc, Head(buf)), Tail(buf)]

CrcBytes(crc, buf) == CrcLoop[crc, buf]

\* Hasher::new_with_initial(init): the hasher's state is the checksum so far.
NewWithInitial(init) == init

\* Hasher::new(): a hasher whose checksum so far is 0.
HasherNew == NewWithInitial(U32(0, 0, 0, 0))

\* hasher.update(buf): the register is the complement of the checksum so far;
\* the bytes go in, and the new checksum is the complement of the register.
HasherUpdate(state, buf) == WNot(CrcBytes(WNot(state), buf))

\* hasher.finalize(): the checksum so far.
HasherFinalize(state) == state

\* -------------------------------------------------- cobs_crc32: its pieces

\* A variant of InitialNewBytes without the marker: [0, 0].
InitialNewBytesNoMarker == <<0, 0>>

\* let mut new_bytes = [6, 0];
InitialNewBytes == <<6, 0>>

\* let mut new_crc32 = 0;
InitialNewCrc32 == U32(0, 0, 0, 0)

\* The range of `for added_byte in 1..=255`.
FirstCandidate == 1

LastCandidate == 255

\* The threshold of the diagnostic: if added_byte > 5 { println!(...) }.
PrintThreshold == 5

\* A variant of SetAddedByte that writes the array's first element.
SetAddedByteFirst(bytes, byte) == [bytes EXCEPT ![1] = byte]

\* new_bytes[1] = added_byte (the array's second element; Rust counts from 0).
SetAddedByte(bytes, byte) == [bytes EXCEPT ![2] = byte]

\* A variant of CandidateCrc that starts from Hasher::new().
CandidateCrcFromNew(crc, bytes) == HasherFinalize(HasherUpdate(HasherNew, bytes))

\* let mut hasher = Hasher::new_with_initial(crc32); hasher.update(&new_bytes);
\* new_crc32 = hasher.finalize();
CandidateCrc(crc, bytes) ==
    HasherFinalize(HasherUpdate(NewWithInitial(crc), bytes))

\* A variant of BadAddedByte without its last test (& 0x000000FF == 0x000000FF).
BadAddedByteNoLowFF(crc) ==
    \/ WAnd(crc, U32(255, 0, 0, 0)) = U32(0, 0, 0, 0)
    \/ WAnd(crc, U32(0, 255, 0, 0)) = U32(0, 0, 0, 0)
    \/ WAnd(crc, U32(0, 0, 255, 0)) = U32(0, 0, 0, 0)
    \/ WAnd(crc, U32(0, 0, 0, 255)) = U32(0, 0, 0, 0)
    \/ WAnd(crc, U32(255, 0, 0, 0)) = U32(255, 0, 0, 0)
    \/ WAnd(crc, U32(0, 255, 0, 0)) = U32(0, 255, 0, 0)
    \/ WAnd(crc, U32(0, 0, 255, 0)) = U32(0, 0, 255, 0)

\* A variant of BadAddedByte without its fifth test (& 0xFF000000 == 0xFF000000).
BadAddedByteNoTopFF(crc) ==
    \/ WAnd(crc, U32(255, 0, 0, 0)) = U32(0, 0, 0, 0)
    \/ WAnd(crc, U32(0, 255, 0, 0)) = U32(0, 0, 0, 0)
    \/ WAnd(crc, U32(0, 0, 255, 0)) = U32(0, 0, 0, 0)
    \/ WAnd(crc, U32(0, 0, 0, 255)) = U32(0, 0, 0, 0)
    \/ WAnd(crc, U32(0, 255, 0, 0)) = U32(0, 255, 0, 0)
    \/ WAnd(crc, U32(0, 0, 255, 0)) = U32(0, 0, 255, 0)
    \/ WAnd(crc, U32(0, 0, 0, 255)) = U32(0, 0, 0, 255)

\* A variant of BadAddedByte whose third mask is 0x00000F00 for 0x0000FF00.
BadAddedByteMaskTypo(crc) ==
    \/ WAnd(crc, U32(255, 0, 0, 0)) = U32(0, 0, 0, 0)
    \/ WAnd(crc, U32(0, 255, 0, 0)) = U32(0, 0, 0, 0)
    \/ WAnd(crc, U32(0, 0, 15, 0)) = U32(0, 0, 0, 0)
    \/ WAnd(crc, U32(0, 0, 0, 255)) = U32(0, 0, 0, 0)
    \/ WAnd(crc, U32(255, 0, 0, 0)) = U32(255, 0, 0, 0)
    \/ WAnd(crc, U32(0, 255, 0, 0)) = U32(0, 255, 0, 0)
    \/ WAnd(crc, U32(0, 0, 255, 0)) = U32(0, 0, 255, 0)
    \/ WAnd(crc, U32(0, 0, 0, 255)) = U32(0, 0, 0, 255)

\* The condition of the `continue`: some lane of new_crc32 is 0x00 or 0xFF.
BadAddedByte(crc) ==
    \/ WAnd(crc, U32(255, 0, 0, 0)) = U32(0, 0, 0, 0)
    \/ WAnd(crc, U32(0, 255, 0, 0)) = U32(0, 0, 0, 0)
    \/ WAnd(crc, U32(0, 0, 255, 0)) = U32(0, 0, 0, 0)
    \/ WAnd(crc, U32(0, 0, 0, 255)) = U32(0, 0, 0, 0)
    \/ WAnd(crc, U32(255, 0, 0, 0)) = U32(255, 0, 0, 0)
    \/ WAnd(crc, U32(0, 255, 0, 0)) = U32(0, 255, 0, 0)
    \/ WAnd(crc, U32(0, 0, 255, 0)) = U32(0, 0, 255, 0)
    \/ WAnd(crc, U32(0, 0, 0, 255)) = U32(0, 0, 0, 255)

\* ------------------------------------------------------ the tests' pieces

\* "Hello world".as_bytes()
HelloWorld == <<72, 101, 108, 108, 111, 32, 119, 111, 114, 108, 100>>

\* A variant of LittleEndianWrite: BigEndian::write_u32.
BigEndianWrite(w) == <<w[1], w[2], w[3], w[4]>>

\* LittleEndian::write_u32(&mut buf, w): the lanes of w, least significant first.
LittleEndianWrite(w) == <<w[4], w[3], w[2], w[1]>>

\* n as u32, for the n the model runs the tests' loops over.
NatToU32(n) == U32(0, 0, (n \div 256) % 256, n % 256)

\* The bytes test_lots and test_all hash for n: the message, then n's bytes.
TestLotsMessage(n) == HelloWorld \o LittleEndianWrite(NatToU32(n))

\* A checksum from scratch: Hasher::new(), update(bytes), finalize().
Crc32Of(bytes) == HasherFinalize(HasherUpdate(HasherNew, bytes))

\* hasher2 of test1 and test_lots: the message, then &addition[0..2].
RecomputedCrc(msg, addition) ==
    HasherFinalize(HasherUpdate(HasherUpdate(HasherNew, msg), SubSeq(addition, 1, 2)))

\* test0: the checksum continued over the bytes of crc ^ 0xFFFFFFFF, complemented.
Test0Crc2(crc) ==
    WXor(HasherFinalize(HasherUpdate(NewWithInitial(crc),
                 LittleEndianWrite(WXor(crc, U32(255, 255, 255, 255))))),
         U32(255, 255, 255, 255))

\* The asserts of test_lots and test_all on (addition, new_crc).
TestLotsAsserts(final, addition, crc) ==
    /\ final = crc
    /\ addition[1] /= 0
    /\ addition[2] /= 0
    /\ addition[1] /= 255
    /\ addition[2] /= 255
    /\ WAnd(crc, U32(255, 0, 0, 0)) /= U32(0, 0, 0, 0)
    /\ WAnd(crc, U32(255, 0, 0, 0)) /= U32(255, 0, 0, 0)
    /\ WAnd(crc, U32(0, 255, 0, 0)) /= U32(0, 0, 0, 0)
    /\ WAnd(crc, U32(0, 255, 0, 0)) /= U32(0, 255, 0, 0)
    /\ WAnd(crc, U32(0, 0, 255, 0)) /= U32(0, 0, 0, 0)
    /\ WAnd(crc, U32(0, 0, 255, 0)) /= U32(0, 0, 255, 0)
    /\ WAnd(crc, U32(0, 0, 0, 255)) /= U32(0, 0, 0, 0)
    /\ WAnd(crc, U32(0, 0, 0, 255)) /= U32(0, 0, 0, 255)

\* The extreme accumulators 0x00000000 and 0xFFFFFFFF.
Extremes == { U32(0, 0, 0, 0), U32(255, 255, 255, 255) }

\* Accumulators a caller hands to cobs_crc32 directly: the two extremes, and
\* 0x429fd5f5, whose candidates 1 to 4 are all bad (0xfff6f4d3, 0x66ffa569,
\* 0x11f895ff, 0x8f9c005c) and whose candidate 5 is good (0xf89b30ca).
DirectAccumulators == Extremes \cup { U32(66, 159, 213, 245) }

\* ------------------------------------------------------------------ state

VARIABLES
    pc,          \* where the program is: idle, in cobs_crc32, or in a test
    caller,      \* who called cobs_crc32: "direct", "test1", "test_lots"
    message,     \* the bytes the calling test hashed (<<>> for a direct call)
    crc32,       \* cobs_crc32's argument (in test0: its crc, the checksum so far)
    new_bytes,   \* cobs_crc32's local new_bytes
    new_crc32,   \* cobs_crc32's local new_crc32
    range_next,  \* the next value the range 1..=255 yields
    added_byte,  \* the loop variable (0 before the first iteration)
    hashed,      \* the buffers given to hasher.update in this call, in order
    printed,     \* whether this call printed "Solved the CRC with ..."
    final_crc,   \* the test's final_crc (hasher2), once computed
    crc2,        \* test0's crc2, once computed
    results,     \* what each accumulator's calls returned so far
    calls        \* calls of cobs_crc32 so far

vars == <<pc, caller, message, crc32, new_bytes, new_crc32, range_next,
          added_byte, hashed, printed, final_crc, crc2, results, calls>>

Zero32 == U32(0, 0, 0, 0)

Init ==
    /\ pc = "idle"
    /\ caller = "none"
    /\ message = <<>>
    /\ crc32 = Zero32
    /\ new_bytes = <<0, 0>>
    /\ new_crc32 = Zero32
    /\ range_next = 0
    /\ added_byte = 0
    /\ hashed = <<>>
    /\ printed = FALSE
    /\ final_crc = Zero32
    /\ crc2 = Zero32
    /\ results = {}
    /\ calls = 0

\* ---------------------------------------------------------------- actions

\* The entry of cobs_crc32(a) with the range starting at `start`.
EnterAt(a, start) ==
    /\ crc32' = a
    /\ new_bytes' = InitialNewBytes
    /\ new_crc32' = InitialNewCrc32
    /\ range_next' = start
    /\ added_byte' = 0
    /\ hashed' = <<>>
    /\ printed' = FALSE
    /\ calls' = calls + 1
    /\ pc' = IF start <= LastCandidate THEN "loop" ELSE "returned"
    /\ UNCHANGED <<final_crc, crc2, results>>

\* A variant of Enter whose range is 0..=255.
EnterFromZero(a) == EnterAt(a, 0)

\* A variant of Enter whose range starts one further with every earlier call,
\* as if the search position were kept in a static.
EnterResuming(a) == EnterAt(a, FirstCandidate + calls)

\* The entry of cobs_crc32(a): its locals as declared, the range at its start.
Enter(a) == EnterAt(a, FirstCandidate)

\* A caller hands an accumulator to cobs_crc32.
CallDirect(a) ==
    /\ pc = "idle"
    /\ calls < MaxCalls
    /\ caller' = "direct"
    /\ message' = <<>>
    /\ Enter(a)

\* test1 up to its call: the checksum of "Hello world", then cobs_crc32 of it.
Test1Call ==
    /\ pc = "idle"
    /\ calls < MaxCalls
    /\ caller' = "test1"
    /\ message' = HelloWorld
    /\ Enter(Crc32Of(HelloWorld))

\* One iteration of test_lots (test_all) up to its call.
TestLotsCall(n) ==
    /\ pc = "idle"
    /\ calls < MaxCalls
    /\ caller' = "test_lots"
    /\ message' = TestLotsMessage(n)
    /\ Enter(Crc32Of(TestLotsMessage(n)))

\* The head of one iteration: the range yields added_byte; new_bytes[1] is
\* set to it; the checksum is continued over new_bytes.
LoopStep ==
    /\ pc = "loop"
    /\ added_byte' = range_next
    /\ range_next' = range_next + 1
    /\ new_bytes' = SetAddedByte(new_bytes, range_next)
    /\ hashed' = Append(hashed, SetAddedByte(new_bytes, range_next))
    /\ new_crc32' = CandidateCrc(crc32, SetAddedByte(new_bytes, range_next))
    /\ pc' = "check"
    /\ UNCHANGED <<caller, message, crc32, printed, final_crc, crc2, results, calls>>

\* `continue`: the candidate is bad.  The loop goes on while the range has a
\* value left; after the last one the function falls through to its return.
Continue ==
    /\ pc = "check"
    /\ BadAddedByte(new_crc32)
    /\ pc' = IF range_next <= LastCandidate THEN "loop" ELSE "returned"
    /\ UNCHANGED <<caller, message, crc32, new_bytes, new_crc32, range_next,
                   added_byte, hashed, printed, final_crc, crc2, results, calls>>

\* The candidate is good: new_bytes[1] = added_byte, the diagnostic, `break`,
\* and the return of (new_bytes, new_crc32).
Accept ==
    /\ pc = "check"
    /\ ~BadAddedByte(new_crc32)
    /\ new_bytes' = SetAddedByte(new_bytes, added_byte)
    /\ printed' = (added_byte > PrintThreshold)
    /\ pc' = "returned"
    /\ UNCHANGED <<caller, message, crc32, new_crc32, range_next, added_byte,
                   hashed, final_crc, crc2, results, calls>>

\* What every path back to idle does: the call's result is on record, the
\* call's locals are gone.
BackToIdle ==
    /\ pc' = "idle"
    /\ caller' = "none"
    /\ message' = <<>>
    /\ crc32' = Zero32
    /\ new_bytes' = <<0, 0>>
    /\ new_crc32' = Zero32
    /\ range_next' = 0
    /\ added_byte' = 0
    /\ hashed' = <<>>
    /\ printed' = FALSE
    /\ final_crc' = Zero32
    /\ crc2' = Zero32

\* The direct caller takes the result.
DirectDone ==
    /\ pc = "returned"
    /\ caller = "direct"
    /\ results' = results \cup {<<crc32, new_bytes, new_crc32>>}
    /\ BackToIdle
    /\ UNCHANGED calls

\* test1 and test_lots after the call: hasher2 over the message and the
\* addition, from scratch.
TestRecompute ==
    /\ pc = "returned"
    /\ caller \in {"test1", "test_lots"}
    /\ final_crc' = RecomputedCrc(message, new_bytes)
    /\ pc' = "asserting"
    /\ UNCHANGED <<caller, message, crc32, new_bytes, new_crc32, range_next,
                   added_byte, hashed, printed, crc2, results, calls>>

\* The tests' asserts: test1 asserts final_crc == new_crc, test_lots the
\* sentinel exclusion as well.  A failed assert panics.
TestAssert ==
    /\ pc = "asserting"
    /\ IF (IF caller = "test1"
           THEN final_crc = new_crc32
           ELSE TestLotsAsserts(final_crc, new_bytes, new_crc32))
       THEN /\ results' = results \cup {<<crc32, new_bytes, new_crc32>>}
            /\ BackToIdle
       ELSE /\ pc' = "panicked"
            /\ UNCHANGED <<caller, message, crc32, new_bytes, new_crc32,
                           range_next, added_byte, hashed, printed, final_crc,
                           crc2, results>>
    /\ UNCHANGED calls

\* The checksums test0 is run on: that of "Hello world" (test0's own), those
\* of the tests' other messages, and those of the frames built so far.
Test0Checksums ==
    {Crc32Of(HelloWorld)} \cup {Crc32Of(TestLotsMessage(n)) : n \in 0..MaxN}
        \cup {r[3] : r \in results}

\* test0 up to its assert, on checksum c.
Test0(c) ==
    /\ pc = "idle"
    /\ crc32' = c
    /\ crc2' = Test0Crc2(c)
    /\ caller' = "test0"
    /\ pc' = "test0_assert"
    /\ UNCHANGED <<message, new_bytes, new_crc32, range_next, added_byte,
                   hashed, printed, final_crc, results, calls>>

\* assert_eq!(crc2, 0)
Test0Assert ==
    /\ pc = "test0_assert"
    /\ IF crc2 = Zero32
       THEN BackToIdle
       ELSE /\ pc' = "panicked"
            /\ UNCHANGED <<caller, message, crc32, new_bytes, new_crc32,
                           range_next, added_byte, hashed, printed, final_crc,
                           crc2>>
    /\ UNCHANGED <<results, calls>>

Next ==
    \/ \E a \in DirectAccumulators : CallDirect(a)
    \/ Test1Call
    \/ \E n \in 0..MaxN : TestLotsCall(n)
    \/ LoopStep
    \/ Continue
    \/ Accept
    \/ DirectDone
    \/ TestRecompute
    \/ TestAssert
    \/ \E c \in Test0Checksums : Test0(c)
    \/ Test0Assert

Spec == Init /\ [][Next]_vars

\* The calls run to completion: cobs_crc32 is synchronous and nothing in it
\* blocks, so a call that can take a step takes it.
FairSpec == Spec /\ WF_vars(LoopStep \/ Continue \/ Accept)

\* ----------------------------------------------------------------- claims

\* The reserved values of the framing: 0x00 and 0xFF.
Sentinels == {0, 255}

\* Every byte lane of crc is in 0x01..=0xFE.
LanesClean(crc) == \A i \in 1..4 : crc[i] \in 1..254

\* Neither trailer byte is a sentinel and every lane of crc is clean.
SentinelFree(trailer, crc) ==
    /\ trailer[1] \notin Sentinels
    /\ trailer[2] \notin Sentinels
    /\ LanesClean(crc)

\* The CRC-32 of the bytes after a prefix whose CRC-32 is a.
Continuation(a, bytes) == HasherFinalize(HasherUpdate(NewWithInitial(a), bytes))

\* cobs_crc32 is searching.
InCall == pc \in {"loop", "check"}

\* cobs_crc32 has returned (new_bytes, new_crc32) and the caller holds them.
Returned == pc \in {"returned", "asserting"}

\* C1: whatever cobs_crc32 returns, for every accumulator, neither trailer
\* byte is 0x00 or 0xFF and each of the four lanes of the result CRC is in
\* 0x01..=0xFE.
SentinelExclusion ==
    /\ Returned => SentinelFree(new_bytes, new_crc32)
    /\ \A r \in results : SentinelFree(r[2], r[3])

\* A call has returned after rejecting at least one candidate.
SentinelExclusionWitness ==
    /\ pc = "returned"
    /\ Len(hashed) >= 2
    /\ SentinelFree(new_bytes, new_crc32)

\* C2: for a message m whose CRC-32 is the accumulator, the CRC-32 computed
\* from scratch over m followed by the two returned bytes is the returned CRC,
\* and so is the final_crc the tests recompute with a second hasher.
ContinuationCorrect ==
    (Returned /\ caller \in {"test1", "test_lots"}) =>
        /\ crc32 = Crc32Of(message)
        /\ new_crc32 = Crc32Of(message \o new_bytes)
        /\ pc = "asserting" => final_crc = new_crc32

\* test1 is at its assert: "Hello world" got the trailer [6, 2] and the
\* checksum 0x66b7de16, and the checksum from scratch is the same.
ContinuationCorrectWitness ==
    /\ pc = "asserting"
    /\ caller = "test1"
    /\ message = HelloWorld
    /\ new_bytes = <<6, 2>>
    /\ final_crc = U32(102, 183, 222, 22)
    /\ new_crc32 = final_crc

\* C4: for the accumulators 0x00000000 and 0xFFFFFFFF the returned trailer
\* and CRC are free of sentinels.
Boundary ==
    /\ (Returned /\ crc32 \in Extremes) => SentinelFree(new_bytes, new_crc32)
    /\ \A r \in results : r[1] \in Extremes => SentinelFree(r[2], r[3])

\* Both extremes have been solved.
BoundaryWitness ==
    \A e \in Extremes : \E r \in results : r[1] = e /\ SentinelFree(r[2], r[3])

\* C5: the search ends within its first 5 candidates: the returned second
\* byte is in 1..=5, at most 5 continuations were computed, and the
\* diagnostic guarded by added_byte > 5 was not printed.
WithinFive ==
    Returned =>
        /\ new_bytes[2] \in 1..5
        /\ Len(hashed) <= 5
        /\ ~printed

\* A call that needed all five: candidates 1 to 4 rejected, 5 returned.
WithinFiveWitness ==
    /\ pc = "returned"
    /\ Len(hashed) = 5
    /\ new_bytes[2] = 5

\* C6: a call returns what every earlier call with the same accumulator
\* returned, whatever calls came before it; the record of results holds one
\* result per accumulator.
Deterministic ==
    /\ Returned =>
           \A r \in results :
               r[1] = crc32 => (r[2] = new_bytes /\ r[3] = new_crc32)
    /\ \A r1, r2 \in results : r1[1] = r2[1] => r1 = r2

\* The third call has returned; its accumulator was solved before, and so
\* was another one.
DeterministicWitness ==
    /\ pc = "returned"
    /\ calls = 3
    /\ \E r \in results : r[1] = crc32
    /\ \E r \in results : r[1] /= crc32

\* C7: continuing the CRC-32 from a checksum c over the little-endian bytes
\* of c ^ 0xFFFFFFFF and complementing the result gives 0.
AppendCrcOfSelf == pc = "test0_assert" => crc2 = Zero32

\* test0 is at its assert on the checksum of "Hello world", 0x8bd69e52.
AppendCrcOfSelfWitness ==
    /\ pc = "test0_assert"
    /\ crc32 = U32(139, 214, 158, 82)
    /\ crc2 = Zero32

\* C8: the returned second byte v is the smallest candidate, counting up
\* from 1, whose continuation over [0x06, v] has four clean lanes; the
\* returned CRC is that continuation; every smaller candidate has a lane
\* equal to 0x00 or 0xFF.
FirstAccepted ==
    Returned =>
        /\ new_bytes[2] \in 1..254
        /\ new_crc32 = Continuation(crc32, <<6, new_bytes[2]>>)
        /\ LanesClean(new_crc32)
        /\ \A u \in 1..(new_bytes[2] - 1) :
               ~LanesClean(Continuation(crc32, <<6, u>>))

\* A call returned candidate 3 or later: at least two smaller ones were bad.
FirstAcceptedWitness ==
    /\ pc = "returned"
    /\ new_bytes[2] >= 3
    /\ ~LanesClean(Continuation(crc32, <<6, 1>>))
    /\ ~LanesClean(Continuation(crc32, <<6, 2>>))

\* What C9 says of every state: at most 254 continuations are computed in a
\* call, the i-th of them on candidate i (so the candidates are 1, 2, 3, ...
\* in ascending order, all in 1..=254, never 0x00 or 0xFF), and the returned
\* second byte is in 1..=254.
BoundedSearchInv ==
    /\ Len(hashed) <= 254
    /\ \A i \in 1..Len(hashed) : hashed[i][2] = i
    /\ pc = "check" => (added_byte = Len(hashed) /\ added_byte \in 1..254)
    /\ Returned => new_bytes[2] \in 1..254

\* C9: every call terminates after at most 254 CRC continuations, and the
\* candidates tried are 1, 2, ... in ascending order within 1..=254; 0x00 and
\* 0xFF are neither tried nor returned.
BoundedSearch == []BoundedSearchInv /\ (InCall ~> pc = "returned")

\* The fifth candidate is being tested.
BoundedSearchWitness ==
    /\ pc = "check"
    /\ added_byte = 5
    /\ hashed[5] = <<6, 5>>

\* C10: on every path through cobs_crc32 the first trailer byte is 0x06: in
\* the local array, in every buffer a continuation is computed over, and in
\* every returned trailer.
FixedFirstByte ==
    /\ (InCall \/ Returned) => new_bytes[1] = 6
    /\ \A i \in 1..Len(hashed) : Len(hashed[i]) = 2 /\ hashed[i][1] = 6
    /\ \A r \in results : r[2][1] = 6

\* The search is under way: three continuations were computed, all over a
\* buffer that starts with 0x06.
FixedFirstByteWitness ==
    /\ pc = "check"
    /\ Len(hashed) = 3
    /\ \A i \in 1..3 : hashed[i][1] = 6

====
